---- MODULE Spec2Model ----
(***************************************************************************)
(* FrameForge backend (backend/src/server.js): the request handlers of     *)
(* POST /api/mockups, POST /api/chat, POST /api/voice and the sketch       *)
(* endpoints, as one state machine per inbound request.  A handler runs    *)
(* from the arrival of the request to its first await, and from the        *)
(* settlement of an awaited provider call to the next await or to the      *)
(* response.                                                               *)
(*                                                                         *)
(* Texts (completion texts, chat messages, transcripts) are sequences of   *)
(* tokens.  A token is an indivisible piece of text; Has(tok) lists the    *)
(* substrings the code searches for that occur in the token, so that       *)
(* String.prototype.includes / startsWith / trim / replace are computed    *)
(* on the token sequence as the code computes them on the string.          *)
(* [fence] stands for the three backquotes of a markdown code fence.        *)
(***************************************************************************)
EXTENDS Integers, Sequences, FiniteSets, TLC

\* ------------------------------------------------------------------------
\* Text model
\* ------------------------------------------------------------------------

WhitespaceTokens == {" ", "\n"}

TagTokens ==
  { "<!DOCTYPE html>", "<!doctype html>", "<html>", "<HTML>", "</html>",
    "</HTML>",
    "<html lang=\"en\">", "<div>", "</div>", "<body>", "</body>",
    "<section>", "</section>", "<main>", "<head>", "</head>", "<header>",
    "</header>", "<p>", "</p>",
    "<meta charset=\"UTF-8\">",
    "<meta name=\"viewport\" content=\"width=device-width, initial-scale=1.0\">",
    "<title>Generated UI</title>", "<title>Updated UI</title>",
    "<script src=\"https://cdn.tailwindcss.com\"></script>",
    "<style>", "</style>",
    "<section class=\"p-6\"><p>Failed to generate UI.</p></section>" }

\* the substrings searched for by the handlers that occur inside one token
Has(tok) ==
  (IF tok \in TagTokens \cup {"if a < b and c > d"} THEN {"<", ">"} ELSE {})
  \cup
  CASE tok = "<!DOCTYPE html>"   -> {"<!DOCTYPE"}
    [] tok = "<html>"            -> {"<html"}
    [] tok = "<html lang=\"en\">" -> {"<html"}
    [] tok = "<div>"             -> {"<div"}
    [] tok = "</div>"            -> {"</div>"}
    [] tok = "<body>"            -> {"<body"}
    [] tok = "<section>"         -> {"<section"}
    [] tok = "<section class=\"p-6\"><p>Failed to generate UI.</p></section>"
                                 -> {"<section"}
    [] tok = "<main>"            -> {"<main"}
    [] tok = "<head>"            -> {"<head"}
    [] tok = "<header>"          -> {"<head"}
    [] tok = "</head>"           -> {"</head>"}
    [] tok = "[fence]html\n"         -> {"[fence]html", "[fence]"}
    [] tok = "[fence]\n"             -> {"[fence]"}
    [] tok = "[fence]"               -> {"[fence]"}
    [] OTHER                     -> {}

\* the searched-for substrings a token begins with
Prefixes(tok) ==
  CASE tok = "<!DOCTYPE html>"   -> {"<!DOCTYPE", "<"}
    [] tok = "<html>"            -> {"<html", "<"}
    [] tok = "<html lang=\"en\">" -> {"<html", "<"}
    [] OTHER                     -> {}

\* String.length of one token
TokLen(tok) ==
  CASE tok \in WhitespaceTokens  -> 1
    [] tok = "long paragraph of prose" -> 120
    [] tok = "Sure, I can help with that." -> 27
    [] tok = "if a < b and c > d" -> 18
    [] tok = "I apologize, but I could not generate a response." -> 49
    [] tok = "[fence]html\n"         -> 8
    [] tok = "[fence]\n"             -> 4
    [] tok = "[fence]"               -> 3
    [] tok = "<!DOCTYPE html>"   -> 15
    [] tok = "<!doctype html>"   -> 15
    [] tok = "<section class=\"p-6\"><p>Failed to generate UI.</p></section>" -> 60
    [] tok = "<html lang=\"en\">"  -> 16
    [] tok = "</html>"           -> 7
    [] tok = "</HTML>"           -> 7
    [] tok = "Sure, I can"       -> 11
    [] tok = "make the header blue" -> 20
    [] tok = "</div>"            -> 6
    [] tok = "<div>"             -> 5
    [] tok = "<p>"               -> 3
    [] tok = "</p>"              -> 4
    [] tok = "<section>"         -> 9
    [] tok = "</section>"        -> 10
    [] tok = "<header>"          -> 8
    [] tok = "</header>"         -> 9
    [] tok = "</body>"           -> 7
    [] tok = "</head>"           -> 7
    [] tok = "Hello"             -> 5
    [] OTHER                     -> 6

RECURSIVE length(_)
length(s) == IF s = <<>> THEN 0 ELSE TokLen(Head(s)) + length(Tail(s))

\* String.prototype.includes(pat)
includes(s, pat) == \E i \in 1..Len(s) : pat \in Has(s[i])

\* String.prototype.trim()
RECURSIVE trimStart(_)
trimStart(s) ==
  IF s # <<>> /\ Head(s) \in WhitespaceTokens THEN trimStart(Tail(s)) ELSE s

RECURSIVE trimEnd(_)
trimEnd(s) ==
  IF s # <<>> /\ s[Len(s)] \in WhitespaceTokens
  THEN trimEnd(SubSeq(s, 1, Len(s) - 1)) ELSE s

trim(s) == trimEnd(trimStart(s))

\* String.prototype.startsWith(pat)
startsWith(s, pat) == s # <<>> /\ pat \in Prefixes(Head(s))

\* s.replace(/[fence]html\n?/g, '').replace(/[fence]\n?/g, '')
stripFences(s) == SelectSeq(s, LAMBDA tok : "[fence]" \notin Has(tok))

\* the document shell the handlers wrap a fragment in
wrapInShell(title, body) ==
  << "<!DOCTYPE html>", "\n", "<html lang=\"en\">", "\n", "<head>", "\n",
     "<meta charset=\"UTF-8\">", "\n",
     "<meta name=\"viewport\" content=\"width=device-width, initial-scale=1.0\">",
     "\n", title, "\n",
     "<script src=\"https://cdn.tailwindcss.com\"></script>", "\n",
     "<style>", "\n",
     "* { margin: 0; padding: 0; box-sizing: border-box; }", "\n",
     "body { font-family: -apple-system, BlinkMacSystemFont, 'Segoe UI', Roboto, sans-serif; }",
     "\n", "</style>", "\n", "</head>", "\n", "<body>", "\n" >>
  \o body \o << "\n", "</body>", "\n", "</html>" >>

\* the shell is never added
ensureDocument_noWrap(title, text) == trim(stripFences(text))

\* strip the fences, trim, and wrap unless the text has a doctype or <html
ensureDocument(title, text) ==
  LET cleaned == trim(stripFences(text))
  IN IF ~includes(cleaned, "<!DOCTYPE") /\ ~includes(cleaned, "<html")
     THEN wrapInShell(title, cleaned)
     ELSE cleaned

\* ------------------------------------------------------------------------
\* Inputs: request bodies and the provider's answers
\* ------------------------------------------------------------------------

\* chat messages / voice transcripts, as texts
EditText    == << "make the header blue" >>
DrawText    == << "Draw attention", " ", "to the header" >>
CanvasText  == << "open the CANVAS" >>
SketchText  == << "fix my Sketch" >>
ExcalidrawText == << "what is Excalidraw" >>
BlankText   == << " ", " " >>

\* the sketch-tool terms a token contains once lower-cased
Keywords(tok) ==
  CASE tok = "Draw attention"     -> {"draw"}
    [] tok = "open the CANVAS"    -> {"canvas"}
    [] tok = "fix my Sketch"      -> {"sketch"}
    [] tok = "what is Excalidraw" -> {"excalidraw"}
    [] OTHER                      -> {}

\* text.toLowerCase().includes(word)
lowerIncludes(s, word) == \E i \in 1..Len(s) : word \in Keywords(s[i])

\* req.body.message: absent, a non-string, or a string
Messages ==
  { [t |-> "undefined", s |-> <<>>],
    [t |-> "number",    s |-> <<>>],
    [t |-> "string",    s |-> <<>>],
    [t |-> "string",    s |-> BlankText],
    [t |-> "string",    s |-> EditText],
    [t |-> "string",    s |-> DrawText],
    [t |-> "string",    s |-> CanvasText],
    [t |-> "string",    s |-> SketchText],
    [t |-> "string",    s |-> ExcalidrawText] }

\* req.body.context.currentHTML: absent/empty (<<>>) or a document
PreviousDoc == << "<!DOCTYPE html>", "<html>", "<body>", "<header>", "Hello",
                  "</header>", "</body>", "</html>" >>
CurrentHTMLs == { <<>>, PreviousDoc }

\* req.body.sketches of POST /api/mockups
SketchesInputs == { "undefined", "empty", "null", "one" }

\* completion texts
FullDoc      == << "<!DOCTYPE html>", "<html>", "<body>", "<div>", "Hello",
                   "</div>", "</body>", "</html>" >>
FencedDoc    == << "[fence]html\n", "<!DOCTYPE html>", "<html>", "<body>",
                   "Hello", "</body>", "</html>", "\n", "[fence]" >>
DivFragment  == << "<div>", "Hello", "</div>" >>
SectionFragment == << "<section>", "Hello", "</section>" >>
ParaFragment == << "<p>", "Hello", "</p>" >>
LowerDoc     == << "<!doctype html>", "<HTML>", "<p>", "Hello", "</p>", "</HTML>" >>
Prose        == << "Sure, I can help with that." >>
LongMath     == << "long paragraph of prose", " ", "if a < b and c > d" >>

LongProse    == << "long paragraph of prose" >>
HeadFragment == << "<head>", "Hello", "</head>" >>
MainFragment == << "<main>", "Hello" >>

\* every text of at most MaxTextLen tokens over TextAlphabet
MaxTextLen == 2
TextAlphabet == { "<!DOCTYPE html>", "<div>", "</div>", "Hello", "\n",
                  "[fence]html\n" }
ShortTexts == UNION { [1..n -> TextAlphabet] : n \in 1..MaxTextLen }

CompletionTexts ==
  { FullDoc, FencedDoc, DivFragment, SectionFragment, ParaFragment, LowerDoc,
    Prose, LongProse, LongMath, HeadFragment, MainFragment } \cup ShortTexts

\* texts cut off by the token budget
TruncatedTexts == { << "<!DOCTYPE html>", "<html>", "<body>", "<div>", "Hello" >>,
                    << "Sure, I can" >> }

RefusalText == "I'm sorry, I can't assist with that."
ProviderErrorMessage == "connect ECONNREFUSED"

\* what openai.chat.completions.create can settle with: a rejection, or a
\* completion whose choices[0] has message.content (<<>>: null or empty),
\* message.refusal and finish_reason
Thrown == [kind |-> "throw", content |-> <<>>, finish_reason |-> "", refusal |-> ""]

CompletionResults ==
  { Thrown }
  \cup { [kind |-> "ok", content |-> t, finish_reason |-> "stop", refusal |-> ""] :
           t \in CompletionTexts \cup { <<>> } }
  \cup { [kind |-> "ok", content |-> t, finish_reason |-> "length", refusal |-> ""] :
           t \in TruncatedTexts }
  \cup { [kind |-> "ok", content |-> <<>>, finish_reason |-> "stop",
          refusal |-> RefusalText] }

\* what openai.audio.transcriptions.create can settle with (content: .text)
TranscriptionResults ==
  { Thrown }
  \cup { [kind |-> "ok", content |-> t, finish_reason |-> "", refusal |-> ""] :
           t \in { <<>>, EditText, DrawText, CanvasText } }

Pending == [kind |-> "pending", content |-> <<>>, finish_reason |-> "", refusal |-> ""]

\* ------------------------------------------------------------------------
\* State
\* ------------------------------------------------------------------------

VARIABLES
  openai,      \* TRUE iff OPENAI_API_KEY is set (the client is not null)
  NODE_ENV,    \* process.env.NODE_ENV
  pc,          \* where the handler of the current request stands
  endpoint,    \* the route of the current request
  body,        \* req.body, the fields the handlers read
  calls,       \* the provider calls issued for the request, in order
  aiResponse,  \* the handler's aiResponse / transcript locals
  transcript,
  tempFile,    \* the temporary audio file: "none", "exists", "removed",
               \* "unlink_failed" (it exists, unlinkSync threw)
  responses,   \* the responses sent for the request, in order
  OPENAI_RESPONSES_MAX_TOKENS, \* the README's token-budget setting, parsed:
                               \* 0 when unset or not a number
  \* a pure function under test
  fnPc,        \* "off", "input" or "output"
  fnIn,        \* its argument
  fnOut,       \* its result
  \* the chat panel of frontend/src/App.jsx
  chatMessages,      \* useState([]): the turns, each [id, role, content]
  isSendingChat,     \* useState(false)
  editingMessageId,  \* useState(null): 0 is null
  editedContent,     \* useState("")
  chatInput,         \* chatInputRef.current.value
  isProcessingVoice, \* useState(false)
  fetches,           \* how many fetches of each kind have not settled
  uiNow,             \* Date.now() in the browser
  \* the preview and the Generate button of frontend/src/App.jsx
  generatedHTML,     \* useState(null): "" is null
  feedback,          \* useState({variant, message})
  isGenerating,      \* useState(false)
  genPc,             \* where handleGenerate stands
  genLog,            \* per click that passed the guards: its requests, timer
  lastSketch,        \* useState(null): the id of the saved sketch, 0 is null
  sketchCount,       \* useState(0)
  \* concurrent /api/voice requests
  now,         \* Date.now() in the server
  fileApi,     \* typeof File !== 'undefined' (Node.js 18 and later)
  voiceReqs,   \* per request: where its handler stands, its tempFilePath
  files        \* the temporary directory: path -> the file's content and
               \* the request that wrote it, owner 0 when there is no file

\* the process-wide configuration, read at start and never written
envVars == << openai, NODE_ENV, OPENAI_RESPONSES_MAX_TOKENS >>

backendVars == << envVars, pc, endpoint, body, calls, aiResponse, transcript,
                  tempFile, responses >>

fnVars == << fnPc, fnIn, fnOut >>

chatVars == << chatMessages, isSendingChat, editingMessageId, editedContent,
             chatInput, isProcessingVoice, fetches, uiNow >>

previewVars == << generatedHTML, feedback >>

genVars == << isGenerating, genPc, genLog, lastSketch, sketchCount >>

uiVars == << chatVars, previewVars, genVars >>

ccVars == << now, fileApi, voiceReqs, files >>

\* the state of the other parts of the system
otherVars == << fnVars, uiVars, ccVars >>

\* the parts a specification does not exercise stay as they start
FnOff == fnPc = "off" /\ fnIn = <<>> /\ fnOut = <<>>

NoFetches == [send |-> 0, edit |-> 0, voice |-> 0]

ChatOff ==
  /\ chatMessages = <<>>
  /\ isSendingChat = FALSE
  /\ editingMessageId = 0
  /\ editedContent = ""
  /\ chatInput = ""
  /\ isProcessingVoice = FALSE
  /\ fetches = NoFetches
  /\ uiNow = 0

IdleFeedback ==
  [variant |-> "idle",
   message |-> "Sketch first, then send it to the backend with Generate."]

PreviewOff == generatedHTML = "" /\ feedback = IdleFeedback

GenOff ==
  /\ isGenerating = FALSE
  /\ genPc = "idle"
  /\ genLog = <<>>
  /\ lastSketch = 0
  /\ sketchCount = 0

UiOff == ChatOff /\ PreviewOff /\ GenOff

CcOff == now = 0 /\ fileApi = TRUE /\ voiceReqs = <<>> /\ files = <<>>

BackendOff ==
  /\ openai = TRUE
  /\ NODE_ENV = "unset"
  /\ OPENAI_RESPONSES_MAX_TOKENS = 0
  /\ pc = "off"
  /\ endpoint = "none"
  /\ body = <<>>
  /\ calls = <<>>
  /\ aiResponse = <<>>
  /\ transcript = <<>>
  /\ tempFile = "none"
  /\ responses = <<>>

vars == << backendVars, otherVars >>

NoBody == [message |-> [t |-> "undefined", s |-> <<>>], currentHTML |-> <<>>,
           audio |-> FALSE, sketches |-> "undefined", scene |-> "valid", id |-> "known"]

\* values of OPENAI_RESPONSES_MAX_TOKENS in backend/.env
ConfiguredBudgets == { 0, 8000 }

\* a JSON response: keys lists the members present in the body
NoResponse == [status |-> 0, keys |-> {}, error |-> "", details |-> "",
               stack |-> "", message |-> <<>>, html |-> <<>>,
               transcript |-> <<>>, warning |-> ""]

\* an Error object
Err(msg) == [message |-> msg, stack |-> "Error: " \o msg \o "\n    at server.js"]

\* openai.chat.completions.create({ temperature, max_tokens }); the
\* temperature is in tenths
NewCall(api, system, temperature, max_tokens) ==
  [api |-> api, system |-> system, temperature |-> temperature,
   max_tokens |-> max_tokens, state |-> "inflight", result |-> Pending]

\* the awaited call settles
Settle(r) ==
  [calls EXCEPT ![Len(calls)] =
     [@ EXCEPT !.state = IF r.kind = "throw" THEN "threw" ELSE "returned",
               !.result = r]]

Init ==
  /\ openai \in BOOLEAN
  /\ NODE_ENV \in {"development", "production", "unset"}
  /\ OPENAI_RESPONSES_MAX_TOKENS \in ConfiguredBudgets
  /\ pc = "idle"
  /\ endpoint = "none"
  /\ body = NoBody
  /\ calls = <<>>
  /\ aiResponse = <<>>
  /\ transcript = <<>>
  /\ tempFile = "none"
  /\ responses = <<>>
  /\ FnOff /\ UiOff /\ CcOff

\* res.status(s).json(r) ends the handler
Respond(r) ==
  /\ responses' = Append(responses, r)
  /\ pc' = "done"

\* ------------------------------------------------------------------------
\* POST /api/mockups
\* ------------------------------------------------------------------------

GenerateFailedSection ==
  << "<section class=\"p-6\"><p>Failed to generate UI.</p></section>" >>
NotConfiguredSection ==
  << "<section class=\"p-6\"><p class=\"text-gray-600\">OpenAI API key not configured. Please set OPENAI_API_KEY in your .env file.</p></section>" >>

\* the stack is sent whatever NODE_ENV is
mockupsCatch_alwaysStack(error) ==
  [NoResponse EXCEPT
     !.status = 500,
     !.keys = {"error", "details", "stack"},
     !.error = "Failed to generate mockup.",
     !.details = error.message,
     !.stack = error.stack]

\* the catch block of /api/mockups
mockupsCatch(error) ==
  [NoResponse EXCEPT
     !.status = 500,
     !.keys = {"error", "details"}
              \cup (IF NODE_ENV = "development" THEN {"stack"} ELSE {}),
     !.error = "Failed to generate mockup.",
     !.details = error.message,
     !.stack = IF NODE_ENV = "development" THEN error.stack ELSE ""]

mockupsSuccess(html, warning) ==
  [NoResponse EXCEPT
     !.status = 200,
     !.keys = {"prompt", "sketches", "html", "metadata"},
     !.html = html,
     !.warning = warning]

ReceiveMockups(sk) ==
  /\ pc = "idle"
  /\ endpoint' = "mockups"
  /\ body' = [NoBody EXCEPT !.sketches = sk]
  /\ IF sk = "null"
     THEN \* sketches[0] of null throws inside the try
          /\ Respond(mockupsCatch(Err("Cannot read properties of null (reading '0')")))
          /\ UNCHANGED calls
     ELSE IF ~openai
     THEN /\ Respond(mockupsSuccess(NotConfiguredSection, "OpenAI not configured"))
          /\ UNCHANGED calls
     ELSE /\ calls' = Append(calls, NewCall("completion", "mockup", 7, 2000))
          /\ pc' = "mockups_completion"
          /\ UNCHANGED responses
  /\ UNCHANGED << otherVars, envVars, aiResponse, transcript, tempFile >>

MockupsCompletionSettles(r) ==
  /\ pc = "mockups_completion"
  /\ calls' = Settle(r)
  /\ IF r.kind = "throw"
     THEN /\ Respond(mockupsCatch(Err("OpenAI API error: " \o ProviderErrorMessage)))
          /\ UNCHANGED aiResponse
     ELSE LET html == IF r.content # <<>> THEN r.content ELSE GenerateFailedSection
          IN /\ aiResponse' = html
             /\ Respond(mockupsSuccess(
                  ensureDocument("<title>Generated UI</title>", html), ""))
  /\ UNCHANGED << otherVars, envVars, endpoint, body, transcript, tempFile >>

\* ------------------------------------------------------------------------
\* POST /api/chat
\* ------------------------------------------------------------------------

Apology == << "I apologize, but I could not generate a response." >>

\* the term 'canvas' is not looked for
isExcalidrawRequest_noCanvas(text) ==
  \/ lowerIncludes(text, "excalidraw")
  \/ lowerIncludes(text, "sketch")
  \/ lowerIncludes(text, "draw")

\* the instruction names the sketching tool
isExcalidrawRequest(text) ==
  \/ lowerIncludes(text, "excalidraw")
  \/ lowerIncludes(text, "canvas")
  \/ lowerIncludes(text, "sketch")
  \/ lowerIncludes(text, "draw")

\* currentHTML && !isExcalidrawRequest
\* currentHTML is not looked at
isModificationRequest_ignoresContext(currentHTML, text) ==
  ~isExcalidrawRequest(text)

isModificationRequest(currentHTML, text) ==
  currentHTML # <<>> /\ ~isExcalidrawRequest(text)

\* set in the first two branches of the system-prompt selection
forceHTMLResponse(currentHTML, text) ==
  \/ isModificationRequest(currentHTML, text) /\ currentHTML # <<>>
  \/ currentHTML # <<>> /\ ~isExcalidrawRequest(text)

\* the length clause is missing
looksLikeHTML_noLength(text) ==
  \/ startsWith(trim(text), "<!DOCTYPE")
  \/ startsWith(trim(text), "<html")

looksLikeHTML(text) ==
  \/ startsWith(trim(text), "<!DOCTYPE")
  \/ startsWith(trim(text), "<html")
  \/ (includes(text, "<") /\ includes(text, ">") /\ length(text) > 100)

chatContainsHTML(text) ==
  \/ looksLikeHTML(text)
  \/ (includes(text, "<div") /\ includes(text, "</div>"))
  \/ (includes(text, "<body") \/ includes(text, "<section") \/ includes(text, "<main"))
  \/ (includes(text, "<head") /\ includes(text, "</head>"))

\* the test the retry's answer must pass to replace aiResponse
retryAccepted(retryResponse) ==
  \/ startsWith(trim(retryResponse), "<!DOCTYPE")
  \/ startsWith(trim(retryResponse), "<html")
  \/ (includes(retryResponse, "<div") /\ includes(retryResponse, "</div>"))

\* the retry is never issued
chatRetries_never(force, text) == FALSE

\* the retry is issued whatever the classification
chatRetries_unclassified(force, text) == force

\* the first completion is retried
chatRetries(force, text) == force /\ ~chatContainsHTML(text)

\* the whitespace test is missing
chatInvalid_noTrim(m) == m.t # "string" \/ m.s = <<>>

chatInvalid(m) ==
  \/ m.t = "undefined"
  \/ m.t = "string" /\ m.s = <<>>
  \/ m.t # "string"
  \/ Len(trim(m.s)) = 0

chatCatch(error) ==
  [NoResponse EXCEPT
     !.status = 500,
     !.keys = {"error", "details"},
     !.error = "Failed to process chat message.",
     !.details = error.message]

chatText(message, warning) ==
  [NoResponse EXCEPT
     !.status = 200,
     !.keys = {"message", "sessionId", "timestamp", "context"}
              \cup (IF warning # "" THEN {"warning"} ELSE {}),
     !.message = message,
     !.warning = warning]

chatHtml(html) ==
  [NoResponse EXCEPT
     !.status = 200,
     !.keys = {"message", "html", "sessionId", "timestamp", "context"},
     !.message = << "HTML has been updated based on your request." >>,
     !.html = html]

\* from the html decision to the response
chatAnswer(text, containsHTML) ==
  IF \/ forceHTMLResponse(body.currentHTML, body.message.s) /\ containsHTML
     \/ isModificationRequest(body.currentHTML, body.message.s) /\ containsHTML
     \/ body.currentHTML # <<>> /\ containsHTML /\ ~isExcalidrawRequest(body.message.s)
  THEN chatHtml(ensureDocument("<title>Updated UI</title>", text))
  ELSE chatText(text, "")

ReceiveChat(m, cur) ==
  /\ pc = "idle"
  /\ endpoint' = "chat"
  /\ body' = [NoBody EXCEPT !.message = m, !.currentHTML = cur]
  /\ IF chatInvalid(m)
     THEN /\ Respond([NoResponse EXCEPT
                        !.status = 400, !.keys = {"error"},
                        !.error = "Message is required and must be a non-empty string."])
          /\ UNCHANGED calls
     ELSE IF ~openai
     THEN /\ Respond(chatText(<< "Received your message: \"" >> \o m.s
                       \o << "\". OpenAI API key not configured. Please set OPENAI_API_KEY in your .env file." >>,
                       "OpenAI not configured"))
          /\ UNCHANGED calls
     ELSE LET force == forceHTMLResponse(cur, m.s)
          IN /\ calls' = Append(calls,
                  NewCall("completion", IF force THEN "modify-html" ELSE "assistant",
                          7, IF force THEN 4000 ELSE 500))
             /\ pc' = "chat_completion"
             /\ UNCHANGED responses
  /\ UNCHANGED << otherVars, envVars, aiResponse, transcript, tempFile >>

\* a rejected first completion is followed by the retry
ChatCompletionSettles_retryAfterThrow(r) ==
  /\ pc = "chat_completion"
  /\ LET text == IF r.content # <<>> THEN r.content ELSE Apology
     IN /\ aiResponse' = text
        /\ IF \/ r.kind = "throw"
              \/ chatRetries(forceHTMLResponse(body.currentHTML, body.message.s), text)
           THEN /\ calls' = Append(Settle(r),
                     NewCall("completion", "modify-html-retry", 3, 4000))
                /\ pc' = "chat_retry"
                /\ UNCHANGED responses
           ELSE /\ calls' = Settle(r)
                /\ Respond(chatAnswer(text, chatContainsHTML(text)))
  /\ UNCHANGED << otherVars, envVars, endpoint, body, transcript, tempFile >>

ChatCompletionSettles(r) ==
  /\ pc = "chat_completion"
  /\ IF r.kind = "throw"
     THEN /\ calls' = Settle(r)
          /\ Respond(chatCatch(Err(ProviderErrorMessage)))
          /\ UNCHANGED aiResponse
     ELSE LET text == IF r.content # <<>> THEN r.content ELSE Apology
          IN /\ aiResponse' = text
             /\ IF chatRetries(forceHTMLResponse(body.currentHTML, body.message.s), text)
                THEN /\ calls' = Append(Settle(r),
                          NewCall("completion", "modify-html-retry", 3, 4000))
                     /\ pc' = "chat_retry"
                     /\ UNCHANGED responses
                ELSE /\ calls' = Settle(r)
                     /\ Respond(chatAnswer(text, chatContainsHTML(text)))
  /\ UNCHANGED << otherVars, envVars, endpoint, body, transcript, tempFile >>

\* a thrown retry is answered with a 500 and the handler goes on to answer
ChatRetrySettles_respondsTwice(r) ==
  /\ pc = "chat_retry"
  /\ calls' = Settle(r)
  /\ IF r.kind = "ok" /\ retryAccepted(r.content)
     THEN LET text == trim(stripFences(r.content))
          IN /\ aiResponse' = text
             /\ Respond(chatAnswer(text, TRUE))
     ELSE /\ responses' =
               (IF r.kind = "throw"
                  THEN Append(responses, chatCatch(Err(ProviderErrorMessage)))
                  ELSE responses) \o << chatAnswer(aiResponse, FALSE) >>
          /\ pc' = "done"
          /\ UNCHANGED aiResponse
  /\ UNCHANGED << otherVars, envVars, endpoint, body, transcript, tempFile >>

ChatRetrySettles(r) ==
  /\ pc = "chat_retry"
  /\ calls' = Settle(r)
  /\ IF r.kind = "ok" /\ retryAccepted(r.content)
     THEN LET text == trim(stripFences(r.content))
          IN /\ aiResponse' = text
             /\ Respond(chatAnswer(text, TRUE))
     ELSE \* a rejected retry is logged and dropped
          /\ Respond(chatAnswer(aiResponse, FALSE))
          /\ UNCHANGED aiResponse
  /\ UNCHANGED << otherVars, envVars, endpoint, body, transcript, tempFile >>

\* ------------------------------------------------------------------------
\* POST /api/voice
\* ------------------------------------------------------------------------

voiceContainsHTML(text) ==
  \/ looksLikeHTML(text)
  \/ (includes(text, "<div") /\ includes(text, "</div>"))
  \/ (includes(text, "<body") \/ includes(text, "<section") \/ includes(text, "<main"))

voiceCatch(error) ==
  [NoResponse EXCEPT
     !.status = 500,
     !.keys = {"error", "details"},
     !.error = "Failed to process voice recording.",
     !.details = error.message]

voiceText(tr, message, warning) ==
  [NoResponse EXCEPT
     !.status = 200,
     !.keys = {"transcript", "message", "sessionId", "timestamp", "format", "context"}
              \cup (IF warning # "" THEN {"warning"} ELSE {}),
     !.transcript = tr,
     !.message = message,
     !.warning = warning]

voiceHtml(tr, html) ==
  [NoResponse EXCEPT
     !.status = 200,
     !.keys = {"transcript", "message", "html", "sessionId", "timestamp",
               "format", "context"},
     !.transcript = tr,
     !.message = << "HTML has been updated based on your voice request." >>,
     !.html = html]

voiceAnswer(tr, text) ==
  IF \/ isModificationRequest(body.currentHTML, tr) /\ voiceContainsHTML(text)
     \/ body.currentHTML # <<>> /\ voiceContainsHTML(text) /\ ~isExcalidrawRequest(tr)
  THEN voiceHtml(tr, ensureDocument("<title>Updated UI</title>", text))
  ELSE voiceText(tr, text, "")

\* there is no finally block
cleanup_skipped(unlinkOk) == "exists"

\* the finally block: unlink the file if it exists; a failure is logged
cleanup(unlinkOk) == IF unlinkOk THEN "removed" ELSE "unlink_failed"

ReceiveVoice(audio, cur, writeOk) ==
  /\ pc = "idle"
  /\ endpoint' = "voice"
  /\ body' = [NoBody EXCEPT !.audio = audio, !.currentHTML = cur]
  /\ IF ~audio
     THEN /\ Respond([NoResponse EXCEPT
                        !.status = 400, !.keys = {"error"},
                        !.error = "Audio data is required."])
          /\ UNCHANGED << calls, tempFile >>
     ELSE IF ~openai
     THEN /\ Respond(voiceText(
                << "OpenAI API key not configured. Please set OPENAI_API_KEY in your .env file." >>,
                << "Voice processing requires OpenAI API key." >>,
                "OpenAI not configured"))
          /\ UNCHANGED << calls, tempFile >>
     ELSE IF ~writeOk
     THEN \* fs.writeFileSync throws before the inner try
          /\ Respond(voiceCatch(Err("ENOSPC: no space left on device, write")))
          /\ UNCHANGED << calls, tempFile >>
     ELSE /\ tempFile' = "exists"
          /\ calls' = Append(calls, NewCall("transcription", "whisper-1", 0, 0))
          /\ pc' = "voice_transcription"
          /\ UNCHANGED responses
  /\ UNCHANGED << otherVars, envVars, aiResponse, transcript >>

VoiceTranscriptionSettles(r, unlinkOk) ==
  /\ pc = "voice_transcription"
  /\ IF r.kind = "throw"
     THEN /\ calls' = Settle(r)
          /\ tempFile' = cleanup(unlinkOk)
          /\ Respond(voiceCatch(Err(ProviderErrorMessage)))
          /\ UNCHANGED transcript
     ELSE /\ transcript' = r.content
          /\ calls' = Append(Settle(r),
               NewCall("completion",
                       IF isModificationRequest(body.currentHTML, r.content)
                       THEN "modify-html" ELSE "assistant",
                       7,
                       IF isModificationRequest(body.currentHTML, r.content)
                       THEN 4000 ELSE 500))
          /\ pc' = "voice_completion"
          /\ UNCHANGED << tempFile, responses >>
  /\ UNCHANGED << otherVars, envVars, endpoint, body, aiResponse >>

VoiceCompletionSettles(r, unlinkOk) ==
  /\ pc = "voice_completion"
  /\ calls' = Settle(r)
  /\ tempFile' = cleanup(unlinkOk)
  /\ IF r.kind = "throw"
     THEN /\ Respond(voiceCatch(Err(ProviderErrorMessage)))
          /\ UNCHANGED aiResponse
     ELSE LET text == IF r.content # <<>> THEN r.content ELSE Apology
          IN /\ aiResponse' = text
             /\ Respond(voiceAnswer(transcript, text))
  /\ UNCHANGED << otherVars, envVars, endpoint, body, transcript >>

\* ------------------------------------------------------------------------
\* /api/sketches
\* ------------------------------------------------------------------------

StoreErrorMessage == "EACCES: permission denied"

\* POST /api/sketches: validateScenePayload is synchronous, saveSketch awaited
ReceiveSketchSave(scene) ==
  /\ pc = "idle"
  /\ endpoint' = "sketches_save"
  /\ body' = [NoBody EXCEPT !.scene = scene]
  /\ IF scene = "invalid"
     THEN Respond([NoResponse EXCEPT
                     !.status = 400, !.keys = {"error"},
                     !.error = "Scene payload must be an object."])
     ELSE /\ pc' = "sketches_save"
          /\ UNCHANGED responses
  /\ UNCHANGED << otherVars, envVars, calls, aiResponse, transcript, tempFile >>

SketchSaveSettles(ok) ==
  /\ pc = "sketches_save"
  /\ IF ok
     THEN Respond([NoResponse EXCEPT
                     !.status = 201, !.keys = {"sketch", "message"},
                     !.message = << "Sketch saved successfully." >>])
     ELSE Respond([NoResponse EXCEPT
                     !.status = 500, !.keys = {"error", "details"},
                     !.error = "Failed to save sketch.",
                     !.details = StoreErrorMessage])
  /\ UNCHANGED << otherVars, envVars, endpoint, body, calls, aiResponse,
                  transcript, tempFile >>

\* GET /api/sketches
ReceiveSketchList ==
  /\ pc = "idle"
  /\ endpoint' = "sketches_list"
  /\ pc' = "sketches_list"
  /\ UNCHANGED << otherVars, envVars, body, calls, aiResponse, transcript,
                  tempFile, responses >>

SketchListSettles(ok) ==
  /\ pc = "sketches_list"
  /\ IF ok
     THEN Respond([NoResponse EXCEPT !.status = 200, !.keys = {"sketches"}])
     ELSE Respond([NoResponse EXCEPT
                     !.status = 500, !.keys = {"error", "details"},
                     !.error = "Failed to load sketches.",
                     !.details = StoreErrorMessage])
  /\ UNCHANGED << otherVars, envVars, endpoint, body, calls, aiResponse,
                  transcript, tempFile >>

\* GET /api/sketches/:id
ReceiveSketchGet(id) ==
  /\ pc = "idle"
  /\ endpoint' = "sketches_get"
  /\ body' = [NoBody EXCEPT !.id = id]
  /\ pc' = "sketches_get"
  /\ UNCHANGED << otherVars, envVars, calls, aiResponse, transcript, tempFile,
                  responses >>

SketchGetSettles(ok) ==
  /\ pc = "sketches_get"
  /\ IF ~ok
     THEN Respond([NoResponse EXCEPT
                     !.status = 500, !.keys = {"error", "details"},
                     !.error = "Failed to load sketch.",
                     !.details = StoreErrorMessage])
     ELSE IF body.id = "unknown"
     THEN Respond([NoResponse EXCEPT !.status = 404, !.keys = {"error"},
                                     !.error = "Sketch not found."])
     ELSE Respond([NoResponse EXCEPT !.status = 200, !.keys = {"sketch"}])
  /\ UNCHANGED << otherVars, envVars, endpoint, body, calls, aiResponse,
                  transcript, tempFile >>

Next ==
  \/ \E sk \in SketchesInputs : ReceiveMockups(sk)
  \/ \E r \in CompletionResults : MockupsCompletionSettles(r)
  \/ \E m \in Messages, cur \in CurrentHTMLs : ReceiveChat(m, cur)
  \/ \E r \in CompletionResults : ChatCompletionSettles(r)
  \/ \E r \in CompletionResults : ChatRetrySettles(r)
  \/ \E audio \in BOOLEAN, cur \in CurrentHTMLs, writeOk \in BOOLEAN :
       ReceiveVoice(audio, cur, writeOk)
  \/ \E r \in TranscriptionResults, unlinkOk \in BOOLEAN :
       VoiceTranscriptionSettles(r, unlinkOk)
  \/ \E r \in CompletionResults, unlinkOk \in BOOLEAN :
       VoiceCompletionSettles(r, unlinkOk)
  \/ \E scene \in {"valid", "invalid"} : ReceiveSketchSave(scene)
  \/ \E ok \in BOOLEAN : SketchSaveSettles(ok)
  \/ ReceiveSketchList
  \/ \E ok \in BOOLEAN : SketchListSettles(ok)
  \/ \E id \in {"known", "unknown"} : ReceiveSketchGet(id)
  \/ \E ok \in BOOLEAN : SketchGetSettles(ok)

Spec == Init /\ [][Next]_vars

\* ------------------------------------------------------------------------
\* Properties
\* ------------------------------------------------------------------------

Done == pc = "done"

\* the completion requests of the request, in order
completionCalls == SelectSeq(calls, LAMBDA c : c.api = "completion")

inFlight == { i \in 1..Len(calls) : calls[i].state = "inflight" }

\* a completion text that is prose: no angle bracket, no fence, not blank
isProse(text) ==
  /\ trim(text) # <<>>
  \* every token is a sentence: it has none of the searched-for markers
  /\ \A i \in 1..Len(text) : Has(text[i]) = {}

\* the current request is a chat request in text-modification mode
TextModification ==
  /\ endpoint = "chat"
  /\ openai
  /\ body.message.t = "string"
  /\ trim(body.message.s) # <<>>
  /\ body.currentHTML # <<>>
  /\ ~isExcalidrawRequest(body.message.s)

\* C1: in text-modification mode, when every completion of the request is
\* prose without HTML markers, the handler ends having issued exactly two
\* completion requests, the second being the retry, and its single response
\* is a 200 with the first prose as message and no html member.
C1_ProseRetriesOnceThenText ==
  ( /\ Done
    /\ TextModification
    /\ \A i \in 1..Len(calls) :
         calls[i].state = "returned" /\ isProse(calls[i].result.content) )
  => ( /\ Len(completionCalls) = 2
       /\ calls[2].system = "modify-html-retry"
       /\ Len(responses) = 1
       /\ responses[1].status = 200
       /\ "message" \in responses[1].keys
       /\ responses[1].message = calls[1].result.content
       /\ "html" \notin responses[1].keys )

C1_Witness ==
  /\ Done
  /\ TextModification
  /\ Len(calls) = 2
  /\ \A i \in 1..2 :
       calls[i].state = "returned" /\ isProse(calls[i].result.content)
  /\ "html" \notin responses[1].keys

\* the text the chat handler classifies after call i returned
answerOf(i) ==
  IF calls[i].result.content # <<>> THEN calls[i].result.content ELSE Apology

\* C2: a chat request issues at most two completion requests, at most one
\* of them is in flight, and a second one exists only once the first has
\* returned and its text has been classified as not HTML.
C2_AtMostTwoSequential ==
  endpoint = "chat" =>
    /\ Len(calls) <= 2
    /\ Len(completionCalls) = Len(calls)
    /\ Cardinality(inFlight) <= 1
    /\ Len(calls) = 2 =>
         /\ calls[1].state = "returned"
         /\ ~chatContainsHTML(answerOf(1))

C2_Witness ==
  /\ endpoint = "chat"
  /\ Len(calls) = 2
  /\ calls[1].state = "returned"
  /\ calls[2].state = "inflight"

\* the current request is a voice request in voice-modification mode whose
\* audio has been transcribed
VoiceModification ==
  /\ endpoint = "voice"
  /\ openai
  /\ body.audio
  /\ body.currentHTML # <<>>
  /\ Len(calls) >= 1
  /\ calls[1].state = "returned"
  /\ trim(transcript) # <<>>
  /\ ~isExcalidrawRequest(transcript)

\* C3: in voice-modification mode, a first completion that is not HTML is
\* followed by exactly one retry completion request before the handler
\* answers with the raw text and no html member.
C3_VoiceRetriesOnce ==
  ( /\ Done
    /\ VoiceModification
    /\ Len(calls) >= 2
    /\ calls[2].state = "returned"
    /\ ~voiceContainsHTML(answerOf(2)) )
  => ( /\ Len(completionCalls) = 2
       /\ completionCalls[2].system = "modify-html-retry" )

TokenBudgetError ==
  "The response was cut off by the token budget. Raise OPENAI_RESPONSES_MAX_TOKENS."

\* some completion of the request was cut off by the token budget
Truncated ==
  \E i \in 1..Len(calls) :
    calls[i].state = "returned" /\ calls[i].result.finish_reason = "length"

\* C4: a request one of whose completions was cut off by the token budget
\* ends with an error response that names the token-budget setting and
\* carries no html.
C4_TruncationIsAnError ==
  (Done /\ Truncated)
  => ( /\ Len(responses) = 1
       /\ responses[1].status >= 400
       /\ TokenBudgetError \in {responses[1].error, responses[1].details}
       /\ "html" \notin responses[1].keys )

\* some completion of the request is a refusal: no content, a refusal text
Refused ==
  \E i \in 1..Len(calls) :
    /\ calls[i].state = "returned"
    /\ calls[i].result.content = <<>>
    /\ calls[i].result.refusal # ""

\* C5: a request one of whose completions is a refusal ends with an error
\* response that carries the refusal text, never with a 200.
C5_RefusalIsAnError ==
  (Done /\ Refused)
  => ( /\ Len(responses) = 1
       /\ responses[1].status >= 400
       /\ RefusalText \in {responses[1].error, responses[1].details} )

\* the request fails the precondition of its endpoint
InvalidChatOrVoice ==
  \/ endpoint = "chat" /\ (body.message.t # "string" \/ trim(body.message.s) = <<>>)
  \/ endpoint = "voice" /\ ~body.audio

\* C6: a chat request without a non-blank string message and a voice
\* request without audio are answered 400 with an error member and no
\* provider call, with or without the API key.
C6_InvalidRejectedBeforeProvider ==
  InvalidChatOrVoice
  => ( /\ calls = <<>>
       /\ tempFile = "none"
       /\ Done
       /\ Len(responses) = 1
       /\ responses[1].status = 400
       /\ responses[1].keys = {"error"} )

C6_Witness ==
  /\ endpoint = "chat"
  /\ openai
  /\ body.message = [t |-> "string", s |-> BlankText]
  /\ Done
  /\ responses[1].status = 400

\* C7: a mockups request that carries no sketch is answered with a
\* validation error and issues no completion request.
C7_NoSketchNoCall ==
  (endpoint = "mockups" /\ openai /\ body.sketches \in {"undefined", "empty"})
  => ( /\ calls = <<>>
       /\ Done
       /\ responses[1].status = 400 )

\* some provider call of the request was rejected
TransportFailure == \E i \in 1..Len(calls) : calls[i].state = "threw"

\* C8: a request one of whose provider calls was rejected is answered 500.
C8_TransportFailureIs500 ==
  (Done /\ TransportFailure)
  => ( /\ Len(responses) = 1
       /\ responses[1].status = 500 )

\* C9: a rejected provider call is the last provider call of its request.
C9_NoCallAfterFailure ==
  \A i \in 1..Len(calls) : calls[i].state = "threw" => i = Len(calls)

C9_Witness ==
  /\ Done
  /\ endpoint = "voice"
  /\ Len(calls) = 1
  /\ calls[1].state = "threw"
  /\ responses[1].status = 500

DocumentOpeners ==
  { "<!DOCTYPE html>", "<!doctype html>", "<html>", "<HTML>", "<html lang=\"en\">" }

beginsWithDocument(text) == text # <<>> /\ Head(text) \in DocumentOpeners

\* the request ended with a 200 whose html was made from a completion
Repaired ==
  /\ Done
  /\ endpoint \in {"mockups", "chat", "voice"}
  /\ calls # <<>>
  /\ Len(responses) = 1
  /\ responses[1].status = 200
  /\ "html" \in responses[1].keys

\* C11: the html of every response made from a completion begins with a
\* doctype declaration or an <html opening tag.
C11_HtmlBeginsWithDocument ==
  Repaired => beginsWithDocument(responses[1].html)

occurrences(text, frag) ==
  { p \in 1..(Len(text) - Len(frag) + 1) :
      SubSeq(text, p, p + Len(frag) - 1) = frag }

\* html is a document shell with frag as the content of its body
isShellAround(html, frag) ==
  /\ html # <<>>
  /\ Head(html) = "<!DOCTYPE html>"
  /\ \E i \in 1..Len(html) : html[i] = "<meta charset=\"UTF-8\">"
  /\ \E i \in 1..Len(html) :
       html[i] = "<meta name=\"viewport\" content=\"width=device-width, initial-scale=1.0\">"
  /\ \E i, j, k \in 1..Len(html) :
       /\ i < j /\ j < k
       /\ html[i] = "<style>"
       /\ html[j] = "body { font-family: -apple-system, BlinkMacSystemFont, 'Segoe UI', Roboto, sans-serif; }"
       /\ html[k] = "</style>"
  /\ \E i, j \in 1..Len(html) :
       /\ html[i] = "<body>"
       /\ html[j] = "</body>"
       /\ i + 1 < j
       /\ trim(SubSeq(html, i + 1, j - 1)) = frag
  /\ frag # <<>> => Cardinality(occurrences(html, frag)) = 1

\* C13: a completion returned as html that does not begin with a doctype
\* or an <html tag is returned inside the document shell, its fence-stripped
\* trimmed text being the content of the body, once.
C13_FragmentWrapped ==
  (Repaired /\ ~beginsWithDocument(trim(stripFences(aiResponse))))
  => isShellAround(responses[1].html, trim(stripFences(aiResponse)))

\* a 200 response of POST /api/mockups after a completion
MockupsSuccess ==
  /\ Done
  /\ endpoint = "mockups"
  /\ Len(calls) = 1
  /\ calls[1].state = "returned"
  /\ Len(responses) = 1
  /\ responses[1].status = 200

C18_BudgetFollowsConfiguration ==
  \A i \in 1..Len(calls) :
    calls[i].api = "completion"
    => calls[i].max_tokens >= OPENAI_RESPONSES_MAX_TOKENS

\* the text names the sketching tool, in any letter case
mentionsSketchTool(text) == \E i \in 1..Len(text) : Keywords(text[i]) # {}

\* the instruction of the current request names the sketching tool
SketchToolRequest ==
  \/ /\ endpoint = "chat"
     /\ body.message.t = "string"
     /\ mentionsSketchTool(body.message.s)
  \/ /\ endpoint = "voice"
     /\ Len(calls) >= 1
     /\ calls[1].state = "returned"
     /\ mentionsSketchTool(transcript)

\* C20: a request whose instruction names the sketching tool issues no
\* retry and none of its responses has an html member.
C20_SketchToolRequestNoHtml ==
  SketchToolRequest
  => ( /\ Len(completionCalls) <= 1
       /\ \A i \in 1..Len(calls) : calls[i].system # "modify-html-retry"
       /\ \A i \in 1..Len(responses) : "html" \notin responses[i].keys )

C20_Witness ==
  /\ Done
  /\ endpoint = "chat"
  /\ body.message.s = CanvasText
  /\ body.currentHTML # <<>>
  /\ Len(calls) = 1
  /\ calls[1].result.content = FullDoc
  /\ responses[1].status = 200
  /\ responses[1].message = FullDoc
  /\ "html" \notin responses[1].keys

\* ---------------------------------------------------------------------
\* JSON Extractor (section 4.2 of the specification).  The repository's
\* server does not contain it: only its caller, the older application in
\* src/unnamed/part_000, is present.  It is modelled from the
\* specification's algorithm.  A text is a sequence of characters.
\* ---------------------------------------------------------------------

MaxJsonLen == 5

JsonAlphabet == { "{", "}", "\"", "\\", "a", ":" }

JsonTexts == UNION { [1..n -> JsonAlphabet] : n \in 0..MaxJsonLen }

NoMatch == [match |-> FALSE, text |-> <<>>]

Match(text) == [match |-> TRUE, text |-> text]

\* index of the first "{" of t, 0 when there is none
firstBrace(t) ==
  IF \E i \in 1..Len(t) : t[i] = "{"
    THEN CHOOSE i \in 1..Len(t) :
           t[i] = "{" /\ \A j \in 1..(i - 1) : t[j] # "{"
    ELSE 0

RECURSIVE scan_ignoringStrings(_, _, _)
\* the scan without the string-mode flag
scan_ignoringStrings(t, i, depth) ==
  IF i > Len(t) THEN 0
  ELSE IF t[i] = "{" THEN scan_ignoringStrings(t, i + 1, depth + 1)
  ELSE IF t[i] = "}"
    THEN IF depth = 1 THEN i ELSE scan_ignoringStrings(t, i + 1, depth - 1)
  ELSE scan_ignoringStrings(t, i + 1, depth)

RECURSIVE scan(_, _, _, _, _)
\* the left-to-right scan from position i with the brace-depth counter, the
\* string-mode flag and the escape flag; the index of the closing brace that
\* brings depth back to zero, 0 when the input ends first
scan(t, i, depth, inString, escaped) ==
  IF i > Len(t) THEN 0
  ELSE IF inString
    THEN IF escaped THEN scan(t, i + 1, depth, TRUE, FALSE)
         ELSE IF t[i] = "\\" THEN scan(t, i + 1, depth, TRUE, TRUE)
         ELSE IF t[i] = "\"" THEN scan(t, i + 1, depth, FALSE, FALSE)
         ELSE scan(t, i + 1, depth, TRUE, FALSE)
  ELSE IF t[i] = "\"" THEN scan(t, i + 1, depth, TRUE, FALSE)
  ELSE IF t[i] = "{" THEN scan(t, i + 1, depth + 1, FALSE, FALSE)
  ELSE IF t[i] = "}"
    THEN IF depth = 1 THEN i ELSE scan(t, i + 1, depth - 1, FALSE, FALSE)
  ELSE scan(t, i + 1, depth, FALSE, FALSE)

closingBrace_ignoringStrings(t, from) == scan_ignoringStrings(t, from, 0)

closingBrace(t, from) == scan(t, from, 0, FALSE, FALSE)

extractJsonObject(t) ==
  LET from == firstBrace(t) IN
    IF from = 0 THEN NoMatch
    ELSE LET to == closingBrace(t, from) IN
           IF to = 0 THEN NoMatch ELSE Match(SubSeq(t, from, to))

ExtractInit ==
  /\ BackendOff /\ UiOff /\ CcOff
  /\ fnPc = "input"
  /\ fnIn \in JsonTexts
  /\ fnOut = NoMatch

Extract ==
  /\ fnPc = "input"
  /\ fnOut' = extractJsonObject(fnIn)
  /\ fnPc' = "output"
  /\ UNCHANGED << fnIn, backendVars, uiVars, ccVars >>

ExtractNext == Extract

SpecExtract == ExtractInit /\ [][ExtractNext]_vars

\* the lexical state after the characters from..i of t have been read:
\* "out" outside a string literal, "str" inside one, "esc" inside one
\* right after a backslash
RECURSIVE lexState(_, _, _)
lexState(t, from, i) ==
  IF i < from THEN "out"
  ELSE LET before == lexState(t, from, i - 1) IN
    CASE before = "out" -> IF t[i] = "\"" THEN "str" ELSE "out"
      [] before = "esc" -> "str"
      [] before = "str" -> IF t[i] = "\\" THEN "esc"
                           ELSE IF t[i] = "\"" THEN "out" ELSE "str"

\* positions from..i of t holding the brace b outside string literals
bracesOutside(t, from, i, b) ==
  { j \in from..i : t[j] = b /\ lexState(t, from, j - 1) = "out" }

depthAfter(t, from, i) ==
  Cardinality(bracesOutside(t, from, i, "{"))
    - Cardinality(bracesOutside(t, from, i, "}"))

\* the positions at which the depth counted from the first brace is zero
balancedAt(t) ==
  { k \in firstBrace(t)..Len(t) :
      firstBrace(t) # 0 /\ depthAfter(t, firstBrace(t), k) = 0 }

\* what the claim says the extractor returns for t
expectedExtract(t) ==
  IF firstBrace(t) = 0 \/ balancedAt(t) = {} THEN NoMatch
  ELSE LET k == CHOOSE k \in balancedAt(t) : \A m \in balancedAt(t) : k <= m
       IN Match(SubSeq(t, firstBrace(t), k))

\* recognisers of JSON over the alphabet: each gives the index after the
\* construct that begins at i, 0 when there is none
RECURSIVE stringEnd(_, _)
stringEnd(t, i) ==
  IF i > Len(t) THEN 0
  ELSE IF t[i] = "\"" THEN i + 1
  ELSE IF t[i] = "\\"
    THEN IF i + 1 <= Len(t) /\ t[i + 1] \in { "\"", "\\" }
           THEN stringEnd(t, i + 2) ELSE 0
  ELSE stringEnd(t, i + 1)

jsonString(t, i) ==
  IF i <= Len(t) /\ t[i] = "\"" THEN stringEnd(t, i + 1) ELSE 0

RECURSIVE jsonObject(_, _)
jsonObject(t, i) ==
  IF ~(i <= Len(t) /\ t[i] = "{") THEN 0
  ELSE IF i + 1 <= Len(t) /\ t[i + 1] = "}" THEN i + 2
  ELSE LET k == jsonString(t, i + 1) IN
    IF k = 0 \/ k > Len(t) \/ t[k] # ":" THEN 0
    ELSE LET v == IF jsonString(t, k + 1) # 0 THEN jsonString(t, k + 1)
                  ELSE jsonObject(t, k + 1)
         IN IF v # 0 /\ v <= Len(t) /\ t[v] = "}" THEN v + 1 ELSE 0

isValidJsonObject(t) == jsonObject(t, 1) = Len(t) + 1

\* C15 as stated: the extractor returns the substring from the first brace
\* to the brace that brings the depth outside strings back to zero, no match
\* when there is none, and a returned substring is valid JSON.
C15_ExtractIsValidJson ==
  fnPc = "output"
  => ( /\ fnOut = expectedExtract(fnIn)
       /\ fnOut.match => isValidJsonObject(fnOut.text) )

\* C15 amended: the extractor returns the substring from the first brace to
\* the brace that brings the depth outside strings back to zero, and no
\* match exactly when there is no brace or the depth never returns to zero.
C15_ExtractIsBalanced ==
  fnPc = "output"
  => ( /\ fnOut = expectedExtract(fnIn)
       /\ fnOut.match <=> (firstBrace(fnIn) # 0 /\ balancedAt(fnIn) # {})
       /\ fnOut.match =>
            /\ Head(fnOut.text) = "{"
            /\ fnOut.text[Len(fnOut.text)] = "}"
            /\ depthAfter(fnOut.text, 1, Len(fnOut.text)) = 0 )

\* a closing brace inside a string literal is passed over
C15_Witness ==
  /\ fnPc = "output"
  /\ fnIn = << "{", "\"", "}", "\"", "}" >>
  /\ fnOut = Match(fnIn)

\* ---------------------------------------------------------------------
\* Response Normalizer (section 4.3 of the specification), modelled from
\* the specification like the extractor it calls.  A UIDocument is a
\* record of three texts; its serialization is the character sequence
\* JSON.stringify produces; "[fence]" is the triple backquote.
\* ---------------------------------------------------------------------

MaxFieldLen == 1

FieldAlphabet == { "a", "\n", "\"", "\\", "[fence]" }

FieldTexts == UNION { [1..n -> FieldAlphabet] : n \in 0..MaxFieldLen }

UIDocuments == [html : FieldTexts, css : FieldTexts, js : FieldTexts]

\* how the completion brackets the JSON text
FenceStyles == { "none", "json", "plain" }

TagLetters == { "j", "s", "o", "n" }

htmlKey == << "h", "t", "m", "l" >>

cssKey == << "c", "s", "s" >>

jsKey == << "j", "s" >>

RECURSIVE escape(_)
\* the characters of a JSON string literal for the text s
escape(s) ==
  IF s = <<>> THEN <<>>
  ELSE ( CASE Head(s) = "\"" -> << "\\", "\"" >>
           [] Head(s) = "\\" -> << "\\", "\\" >>
           [] Head(s) = "\n" -> << "\\", "n" >>
           [] OTHER -> << Head(s) >> ) \o escape(Tail(s))

quote(s) == << "\"" >> \o escape(s) \o << "\"" >>

\* JSON.stringify({html, css, js})
stringify(doc) ==
  << "{" >> \o quote(htmlKey) \o << ":" >> \o quote(doc.html)
    \o << "," >> \o quote(cssKey) \o << ":" >> \o quote(doc.css)
    \o << "," >> \o quote(jsKey) \o << ":" >> \o quote(doc.js)
    \o << "}" >>

\* the completion text: the JSON text, bare or between code fences
bracket(style, text) ==
  CASE style = "none" -> text
    [] style = "json" ->
         << "[fence]", "j", "s", "o", "n", "\n" >> \o text \o << "\n", "[fence]" >>
    [] style = "plain" -> << "[fence]", "\n" >> \o text \o << "\n", "[fence]" >>

RECURSIVE dropTag(_)
\* drops the language tag that follows an opening fence
dropTag(s) ==
  IF s # <<>> /\ Head(s) \in TagLetters THEN dropTag(Tail(s)) ELSE s

\* removes every fence marker of the text, wherever it stands
stripFenceMarkers_everywhere(text) ==
  trim(dropTag(SelectSeq(trim(text), LAMBDA c : c # "[fence]")))

\* step 1: strips a leading and a trailing fence marker that bracket the
\* payload
stripFenceMarkers(text) ==
  LET t1 == trim(text)
      t2 == IF t1 # <<>> /\ Head(t1) = "[fence]"
              THEN trimStart(dropTag(Tail(t1))) ELSE t1
      t3 == IF t2 # <<>> /\ t2[Len(t2)] = "[fence]"
              THEN trimEnd(SubSeq(t2, 1, Len(t2) - 1)) ELSE t2
  IN t3

Failed(kind) == [ok |-> FALSE, next |-> 0, val |-> <<>>, error |-> kind]

Parsed(v, n) == [ok |-> TRUE, next |-> n, val |-> v, error |-> ""]

RECURSIVE readString(_, _, _)
\* reads the body of a string literal from position i, unescaping
readString(t, i, acc) ==
  IF i > Len(t) THEN Failed("SyntaxError")
  ELSE IF t[i] = "\"" THEN Parsed(acc, i + 1)
  ELSE IF t[i] = "\\"
    THEN IF i + 1 > Len(t) THEN Failed("SyntaxError")
         ELSE IF t[i + 1] \in { "\"", "\\" }
           THEN readString(t, i + 2, Append(acc, t[i + 1]))
         ELSE IF t[i + 1] = "n" THEN readString(t, i + 2, Append(acc, "\n"))
         ELSE Failed("SyntaxError")
  ELSE readString(t, i + 1, Append(acc, t[i]))

parseString(t, i) ==
  IF i <= Len(t) /\ t[i] = "\"" THEN readString(t, i + 1, <<>>)
  ELSE Failed("SyntaxError")

\* obj with member key set to val
withMember(obj, key, val) ==
  [k \in DOMAIN obj \cup {key} |-> IF k = key THEN val ELSE obj[k]]

RECURSIVE parseMembers(_, _, _)
\* reads  "key":"value"  members from position i up to the closing brace
parseMembers(t, i, obj) ==
  LET key == parseString(t, i) IN
    IF ~key.ok THEN key
    ELSE IF ~(key.next <= Len(t) /\ t[key.next] = ":") THEN Failed("SyntaxError")
    ELSE LET val == parseString(t, key.next + 1) IN
      IF ~val.ok THEN val
      ELSE IF val.next > Len(t) THEN Failed("SyntaxError")
      ELSE IF t[val.next] = ","
        THEN parseMembers(t, val.next + 1, withMember(obj, key.val, val.val))
      ELSE IF t[val.next] = "}"
        THEN Parsed(withMember(obj, key.val, val.val), val.next + 1)
      ELSE Failed("SyntaxError")

\* JSON.parse of an object whose members are strings
parseObject(t) ==
  IF ~(t # <<>> /\ t[1] = "{") THEN Failed("SyntaxError")
  ELSE LET r == IF Len(t) >= 2 /\ t[2] = "}" THEN Parsed(<<>>, 3)
                ELSE parseMembers(t, 2, <<>>)
       IN IF r.ok /\ r.next # Len(t) + 1 THEN Failed("SyntaxError") ELSE r

Malformed(msg) == [ok |-> FALSE, error |-> "MalformedOutput", message |-> msg]

\* steps 2 and 4: the parsed object as a UIDocument, js defaulting to ""
toDocument(r) ==
  IF ~r.ok THEN Malformed(r.error)
  ELSE IF ~({htmlKey, cssKey} \subseteq DOMAIN r.val) THEN Malformed("missing field")
  ELSE [ok |-> TRUE,
        doc |-> [html |-> r.val[htmlKey], css |-> r.val[cssKey],
                 js |-> IF jsKey \in DOMAIN r.val THEN r.val[jsKey] ELSE <<>>]]

normalize(rawCompletionText) ==
  LET stripped == stripFenceMarkers(rawCompletionText)
      direct == parseObject(stripped)
  IN IF direct.ok THEN toDocument(direct)
     ELSE LET candidate == extractJsonObject(stripped) IN
       IF candidate.match THEN toDocument(parseObject(candidate.text))
       ELSE Malformed(direct.error)

NormalizeInit ==
  /\ BackendOff /\ UiOff /\ CcOff
  /\ fnPc = "document"
  /\ fnIn \in [doc : UIDocuments, style : FenceStyles, raw : { <<>> }]
  /\ fnOut = Malformed("")

\* the model answers with the serialized document
Serialize ==
  /\ fnPc = "document"
  /\ fnIn' = [fnIn EXCEPT !.raw = bracket(fnIn.style, stringify(fnIn.doc))]
  /\ fnPc' = "input"
  /\ UNCHANGED << fnOut, backendVars, uiVars, ccVars >>

Normalize ==
  /\ fnPc = "input"
  /\ fnOut' = normalize(fnIn.raw)
  /\ fnPc' = "output"
  /\ UNCHANGED << fnIn, backendVars, uiVars, ccVars >>

NormalizeNext == Serialize \/ Normalize

SpecNormalize == NormalizeInit /\ [][NormalizeNext]_vars

\* C16: normalizing the serialization of a UIDocument, bare or between
\* code fences, gives back the document field for field.
C16_NormalizeRoundTrip ==
  fnPc = "output"
  => ( /\ fnOut.ok
       /\ fnOut.doc.html = fnIn.doc.html
       /\ fnOut.doc.css = fnIn.doc.css
       /\ fnOut.doc.js = fnIn.doc.js )

\* a fenced serialization of a document whose html holds a fence marker
\* and whose css holds a quote
C16_Witness ==
  /\ fnPc = "output"
  /\ fnIn.style = "json"
  /\ fnIn.doc.html = << "[fence]" >>
  /\ fnIn.doc.css = << "\"" >>
  /\ fnIn.raw # stringify(fnIn.doc)
  /\ fnOut.ok
  /\ fnOut.doc = fnIn.doc

\* ---------------------------------------------------------------------
\* The chat panel of frontend/src/App.jsx.  A handler's synchronous part
\* is one action and the settling of its fetch another; the state updaters
\* are functional (prev => ...), so each applies to the latest history.
\* The backend is held ready (backendStatus.ready).
\* ---------------------------------------------------------------------

MaxTurns == 3

MaxClock == 2

\* what the user types into the chat input
ChatInputs == { " hi ", " " }

\* data.message of a 200 response
ServerMessages == { "<p>a</p>", "ok" }

\* what the user types into the edit textarea
EditInputs == { "<p>b</p>", " " }

\* data.transcript of a 200 response of /api/voice
Transcripts == { "", "hi" }

\* String.prototype.trim on the texts of the panel
trimContent(c) ==
  CASE c = " hi " -> "hi"
    [] c = " " -> ""
    [] OTHER -> c

\* hasCodeContent: the texts of the panel that hold a tag
hasCodeContent(content) == content \in { "<p>a</p>", "<p>b</p>" }

followUp(content) == "I've edited the previous response:\n\n" \o content

Msg(role, content) == [id |-> uiNow, role |-> role, content |-> content]

ErrorMsg(fallback) == Msg("system", "Error: " \o fallback)

\* prev => prev.map(msg => msg) : the history is left as it is
applyEdit_none(prev, messageId, content) == prev

\* prev => prev.map(msg => msg.id === messageId ? {...msg, content} : msg)
applyEdit(prev, messageId, content) ==
  [i \in 1..Len(prev) |->
     IF prev[i].id = messageId
       THEN [prev[i] EXCEPT !.content = content] ELSE prev[i]]

ChatUIInit ==
  /\ BackendOff /\ FnOff /\ CcOff
  /\ PreviewOff /\ GenOff
  /\ chatMessages = <<>>
  /\ isSendingChat = FALSE
  /\ editingMessageId = 0
  /\ editedContent = ""
  /\ chatInput = ""
  /\ isProcessingVoice = FALSE
  /\ fetches = NoFetches
  /\ uiNow = 1

uiRest == << backendVars, fnVars, ccVars, genVars >>

\* the browser's clock advances
UiTick ==
  /\ uiNow < MaxClock
  /\ uiNow' = uiNow + 1
  /\ UNCHANGED << chatMessages, isSendingChat, editingMessageId, editedContent,
                  chatInput, isProcessingVoice, fetches, previewVars, uiRest >>

TypeChat(v) ==
  /\ chatInput' = v
  /\ chatInput' # chatInput
  /\ UNCHANGED << chatMessages, isSendingChat, editingMessageId, editedContent,
                  isProcessingVoice, fetches, uiNow, previewVars, uiRest >>

handleSendChatMessage ==
  /\ trimContent(chatInput) # ""
  /\ ~isSendingChat
  /\ Len(chatMessages) < MaxTurns
  /\ chatInput' = ""
  /\ chatMessages' = Append(chatMessages, Msg("user", trimContent(chatInput)))
  /\ isSendingChat' = TRUE
  /\ fetches' = [fetches EXCEPT !.send = @ + 1]
  /\ UNCHANGED << editingMessageId, editedContent, isProcessingVoice, uiNow,
                  previewVars, uiRest >>

\* data.html of a 200 response: "" when the response has none
ServerHtmls == { "", "<html>B</html>" }

\* if (data.html && data.html !== generatedHTML) { setGeneratedHTML(data.html);
\* setFeedback(success) }: closureHTML is generatedHTML as the running
\* handler's closure holds it, the value of the render it was called in
updatePreview(ok, html, closureHTML, note) ==
  IF ok /\ html # "" /\ html # closureHTML
    THEN /\ generatedHTML' = html
         /\ feedback' = [variant |-> "success", message |-> note]
    ELSE UNCHANGED previewVars

\* a failed fetch leaves no turn behind
SendSettles_silentFailure(ok, message, html, closureHTML) ==
  /\ fetches.send > 0
  /\ Len(chatMessages) < MaxTurns
  /\ fetches' = [fetches EXCEPT !.send = @ - 1]
  /\ chatMessages' =
       IF ok THEN Append(chatMessages, Msg("assistant", message)) ELSE chatMessages
  /\ isSendingChat' = FALSE
  /\ UNCHANGED << editingMessageId, editedContent, chatInput,
                  isProcessingVoice, uiNow, uiRest >>
  /\ updatePreview(ok, html, closureHTML, "HTML updated based on your request.")

\* the fetch of handleSendChatMessage settles: ok with data.message, or not
SendSettles(ok, message, html, closureHTML) ==
  /\ fetches.send > 0
  /\ Len(chatMessages) < MaxTurns
  /\ fetches' = [fetches EXCEPT !.send = @ - 1]
  /\ chatMessages' =
       Append(chatMessages,
              IF ok THEN Msg("assistant", message)
              ELSE ErrorMsg("Failed to send message."))
  /\ isSendingChat' = FALSE
  /\ UNCHANGED << editingMessageId, editedContent, chatInput,
                  isProcessingVoice, uiNow, uiRest >>
  /\ updatePreview(ok, html, closureHTML, "HTML updated based on your request.")

\* the edit button of turn i, shown for assistant turns with code
handleStartEdit(i) ==
  /\ chatMessages[i].role = "assistant"
  /\ hasCodeContent(chatMessages[i].content)
  /\ editingMessageId # chatMessages[i].id
  /\ editingMessageId' = chatMessages[i].id
  /\ editedContent' = chatMessages[i].content
  /\ UNCHANGED << chatMessages, isSendingChat, chatInput, isProcessingVoice,
                  fetches, uiNow, previewVars, uiRest >>

\* the textarea of the turn being edited
TypeEdit(v) ==
  /\ editingMessageId # 0
  /\ editedContent' = v
  /\ editedContent' # editedContent
  /\ UNCHANGED << chatMessages, isSendingChat, editingMessageId, chatInput,
                  isProcessingVoice, fetches, uiNow, previewVars, uiRest >>

handleCancelEdit ==
  /\ editingMessageId # 0
  /\ editingMessageId' = 0
  /\ editedContent' = ""
  /\ UNCHANGED << chatMessages, isSendingChat, chatInput, isProcessingVoice,
                  fetches, uiNow, previewVars, uiRest >>

\* Save & Send of turn i, one of the turns shown in edit mode
handleSaveEdit(i) ==
  /\ editingMessageId # 0
  /\ chatMessages[i].id = editingMessageId
  /\ IF trimContent(editedContent) = "" \/ editedContent = chatMessages[i].content
       THEN /\ editingMessageId' = 0
            /\ editedContent' = ""
            /\ UNCHANGED << chatMessages, isSendingChat, fetches >>
       ELSE /\ Len(chatMessages) < MaxTurns
            /\ chatMessages' =
                 Append(applyEdit(chatMessages, chatMessages[i].id, editedContent),
                        Msg("user", followUp(editedContent)))
            /\ isSendingChat' = TRUE
            /\ fetches' = [fetches EXCEPT !.edit = @ + 1]
            /\ UNCHANGED << editingMessageId, editedContent >>
  /\ UNCHANGED << chatInput, isProcessingVoice, uiNow, previewVars, uiRest >>

\* the fetch of handleSaveEdit settles
EditSettles(ok, message, html, closureHTML) ==
  /\ fetches.edit > 0
  /\ Len(chatMessages) < MaxTurns
  /\ fetches' = [fetches EXCEPT !.edit = @ - 1]
  /\ chatMessages' =
       Append(chatMessages,
              IF ok THEN Msg("assistant", message)
              ELSE ErrorMsg("Failed to send edited message."))
  /\ isSendingChat' = FALSE
  /\ editingMessageId' = 0
  /\ editedContent' = ""
  /\ UNCHANGED << chatInput, isProcessingVoice, uiNow, uiRest >>
  /\ updatePreview(ok, html, closureHTML, "HTML updated based on your edited request.")

\* reader.onloadend of a finished recording
VoiceRecorded ==
  /\ ~isProcessingVoice
  /\ Len(chatMessages) + 1 < MaxTurns
  /\ isProcessingVoice' = TRUE
  /\ fetches' = [fetches EXCEPT !.voice = @ + 1]
  /\ UNCHANGED << chatMessages, isSendingChat, editingMessageId, editedContent,
                  chatInput, uiNow, previewVars, uiRest >>

\* the fetch of the recording settles: the transcript turn and the
\* assistant turn are made in the same task, each with Date.now()
VoiceSettles(ok, t, message, html, closureHTML) ==
  /\ fetches.voice > 0
  /\ Len(chatMessages) + 1 < MaxTurns
  /\ fetches' = [fetches EXCEPT !.voice = @ - 1]
  /\ chatMessages' =
       IF ok
         THEN ( IF t # "" THEN Append(chatMessages, Msg("user", "[Voice] " \o t))
                ELSE chatMessages ) \o << Msg("assistant", message) >>
         ELSE Append(chatMessages, ErrorMsg("Failed to process voice."))
  /\ isProcessingVoice' = FALSE
  /\ UNCHANGED << isSendingChat, editingMessageId, editedContent, chatInput,
                  uiNow, uiRest >>
  /\ updatePreview(ok, html, closureHTML, "HTML updated based on your voice request.")

ChatUINext ==
  \/ UiTick
  \/ \E v \in ChatInputs : TypeChat(v)
  \/ handleSendChatMessage
  \/ \E ok \in BOOLEAN, m \in ServerMessages, h, c \in ServerHtmls :
       SendSettles(ok, m, h, c)
  \/ \E i \in 1..Len(chatMessages) : handleStartEdit(i)
  \/ \E v \in EditInputs : TypeEdit(v)
  \/ handleCancelEdit
  \/ \E i \in 1..Len(chatMessages) : handleSaveEdit(i)
  \/ \E ok \in BOOLEAN, m \in ServerMessages, h, c \in ServerHtmls :
       EditSettles(ok, m, h, c)
  \/ VoiceRecorded
  \/ \E ok \in BOOLEAN, t \in Transcripts, m \in ServerMessages,
        h, c \in ServerHtmls :
       VoiceSettles(ok, t, m, h, c)

SpecChatUI == ChatUIInit /\ [][ChatUINext]_vars

\* turn i keeps its id, role and place in the step
KeepsPlace(i) ==
  /\ i <= Len(chatMessages')
  /\ chatMessages'[i].id = chatMessages[i].id
  /\ chatMessages'[i].role = chatMessages[i].role

\* the step appends the follow-up turn of an edit-and-resend
AppendsFollowUp ==
  /\ Len(chatMessages') = Len(chatMessages) + 1
  /\ chatMessages'[Len(chatMessages')].role = "user"
  /\ chatMessages'[Len(chatMessages')].content = followUp(editedContent)

\* C17 as stated: no step changes the role, content or position of a turn
\* that is in the history; every operation, edit-and-resend included, only
\* appends.
C17_HistoryAppendOnly ==
  [][ \A i \in 1..Len(chatMessages) :
        KeepsPlace(i) /\ chatMessages'[i].content = chatMessages[i].content
    ]_vars

\* C17 amended: no step removes or reorders a turn or changes its id or
\* role; send and voice steps only append; an edit-and-resend replaces the
\* content of every turn that has the edited turn's id by the edited text
\* and appends one user turn that quotes it, and no other step changes
\* the content of a turn.
C17_HistoryInPlaceEdit ==
  [][ /\ \A i \in 1..Len(chatMessages) : KeepsPlace(i)
      /\ IF AppendsFollowUp
           THEN \A i \in 1..Len(chatMessages) :
                  chatMessages'[i].content =
                    IF chatMessages[i].id = editingMessageId
                      THEN editedContent ELSE chatMessages[i].content
           ELSE \A i \in 1..Len(chatMessages) :
                  chatMessages'[i].content = chatMessages[i].content
    ]_vars

\* an assistant turn holds the text typed into the edit box, followed by
\* the user turn that quotes it
C17_Witness ==
  \E i, j \in 1..Len(chatMessages) :
    /\ i < j
    /\ chatMessages[i].role = "assistant"
    /\ chatMessages[i].content = "<p>b</p>"
    /\ chatMessages[j].role = "user"
    /\ chatMessages[j].content = followUp("<p>b</p>")

\* ---------------------------------------------------------------------
\* Concurrent POST /api/voice requests.  Each handler runs up to its next
\* await in one step; the handlers share the temporary directory, where
\* each writes its audio under the name audio-<Date.now()>.<format>.
\* Chat and mockups handlers touch nothing outside their own request.
\* ---------------------------------------------------------------------

NumRequests == 2

MaxNow == 1

Requests == 1..NumRequests

Formats == { "webm", "wav" }

Audios == { "audioA", "audioB" }

\* join(tmpdir(), `audio-${Date.now()}.${format}`)
tempFilePath(t, format) == << t, format >>

Paths == { tempFilePath(t, f) : t \in 0..MaxNow, f \in Formats }

NoFile == [owner |-> 0, content |-> ""]

IdleRequest ==
  [pc |-> "idle", audio |-> "", path |-> << >>, audioFile |-> "none",
   heard |-> "", status |-> 0, transcript |-> ""]

ConcurrentInit ==
  /\ BackendOff /\ FnOff /\ UiOff
  /\ now = 0
  /\ fileApi \in BOOLEAN
  /\ voiceReqs = [r \in Requests |-> IdleRequest]
  /\ files = [p \in Paths |-> NoFile]

ccRest == << backendVars, fnVars, uiVars >>

\* the server's clock advances
Tick ==
  /\ now < MaxNow
  /\ now' = now + 1
  /\ UNCHANGED << fileApi, voiceReqs, files, ccRest >>

\* the handler of request r up to the await of the transcription: writes
\* the temporary file and makes the file object to upload
VoiceWritesTempFile(r, audio, format) ==
  /\ voiceReqs[r].pc = "idle"
  /\ files' = [files EXCEPT ![tempFilePath(now, format)] =
                 [owner |-> r, content |-> audio]]
  /\ voiceReqs' = [voiceReqs EXCEPT ![r] =
       [@ EXCEPT !.pc = "uploading", !.audio = audio,
                 !.path = tempFilePath(now, format),
                 !.audioFile = IF fileApi THEN "File" ELSE "ReadStream"]]
  /\ UNCHANGED << now, fileApi, ccRest >>

\* the client library reads the file object: a File holds the request's
\* buffer, a ReadStream is read from the path when the upload starts
VoiceUploads(r) ==
  /\ voiceReqs[r].pc = "uploading"
  /\ voiceReqs' = [voiceReqs EXCEPT ![r] =
       [@ EXCEPT !.pc = "transcribing",
                 !.heard =
                   IF voiceReqs[r].audioFile = "File" THEN voiceReqs[r].audio
                   ELSE IF files[voiceReqs[r].path].owner # 0
                     THEN files[voiceReqs[r].path].content
                   ELSE "ENOENT"]]
  /\ UNCHANGED << now, fileApi, files, ccRest >>

\* finally: if (fs.existsSync(tempFilePath)) fs.unlinkSync(tempFilePath)
unlinked(path) == [files EXCEPT ![path] = NoFile]

\* the transcription settles; the completion is awaited next, or the
\* error leaves through finally and the outer catch
VoiceTranscribed(r, ok) ==
  /\ voiceReqs[r].pc = "transcribing"
  /\ IF ok /\ voiceReqs[r].heard # "ENOENT"
       THEN /\ voiceReqs' = [voiceReqs EXCEPT ![r] =
                 [@ EXCEPT !.pc = "completing",
                           !.transcript = "words of " \o voiceReqs[r].heard]]
            /\ UNCHANGED files
       ELSE /\ voiceReqs' = [voiceReqs EXCEPT ![r] =
                 [@ EXCEPT !.pc = "done", !.status = 500]]
            /\ files' = unlinked(voiceReqs[r].path)
  /\ UNCHANGED << now, fileApi, ccRest >>

\* the completion settles: the response is sent and finally cleans up
VoiceCompleted(r, ok) ==
  /\ voiceReqs[r].pc = "completing"
  /\ voiceReqs' = [voiceReqs EXCEPT ![r] =
       [@ EXCEPT !.pc = "done", !.status = IF ok THEN 200 ELSE 500]]
  /\ files' = unlinked(voiceReqs[r].path)
  /\ UNCHANGED << now, fileApi, ccRest >>

ConcurrentNext ==
  \/ Tick
  \/ \E r \in Requests, a \in Audios, f \in Formats : VoiceWritesTempFile(r, a, f)
  \/ \E r \in Requests : VoiceUploads(r)
  \/ \E r \in Requests, ok \in BOOLEAN : VoiceTranscribed(r, ok)
  \/ \E r \in Requests, ok \in BOOLEAN : VoiceCompleted(r, ok)

SpecConcurrent == ConcurrentInit /\ [][ConcurrentNext]_vars

\* request r has written its temporary file and not yet cleaned up
holdsTempFile(r) == voiceReqs[r].pc \in { "uploading", "transcribing", "completing" }

\* C19: while a request is between writing its temporary audio file and
\* its own clean-up, the file is there and holds that request's audio (no
\* other request has overwritten or deleted it), and what is transcribed
\* for a request is that request's own audio.
C19_RequestsDoNotInterfere ==
  \A r \in Requests :
    /\ holdsTempFile(r) =>
         files[voiceReqs[r].path] = [owner |-> r, content |-> voiceReqs[r].audio]
    /\ voiceReqs[r].heard \in { "", voiceReqs[r].audio }

\* the markers the claim lists: a div pair, a head pair or a block-level tag
hasFragmentMarkers(text) ==
  \/ (includes(text, "<div") /\ includes(text, "</div>"))
  \/ (includes(text, "<head") /\ includes(text, "</head>"))
  \/ includes(text, "<body")
  \/ includes(text, "<section")
  \/ includes(text, "<main")

\* more than 100 characters with both angle brackets somewhere
isLongWithBrackets(text) ==
  includes(text, "<") /\ includes(text, ">") /\ length(text) > 100

\* the first completion of a text-modification request returned a text that
\* does not begin with a doctype or an <html tag
FirstAnswerIsNoDocument ==
  /\ TextModification
  /\ Len(calls) >= 1
  /\ calls[1].state = "returned"
  /\ ~beginsWithDocument(trim(answerOf(1)))

\* C21 as stated: such a text is returned as an html update exactly when it
\* has one of the listed markers, and is retried otherwise.
C21_FragmentByMarkersOnly ==
  FirstAnswerIsNoDocument
  => ( /\ Len(calls) = 2 <=> ~hasFragmentMarkers(answerOf(1))
       /\ (Done /\ Len(calls) = 1) =>
            ( "html" \in responses[1].keys <=> hasFragmentMarkers(answerOf(1)) ) )

\* C21 amended: such a text is returned as an html update exactly when it
\* has one of the listed markers or is longer than 100 characters and has
\* both angle brackets, and is retried otherwise.
C21_FragmentByMarkersOrLength ==
  FirstAnswerIsNoDocument
  => LET isHTML == hasFragmentMarkers(answerOf(1)) \/ isLongWithBrackets(answerOf(1))
     IN /\ Len(calls) = 2 <=> ~isHTML
        /\ Len(calls) = 2 => calls[2].system = "modify-html-retry"
        /\ (Done /\ Len(calls) = 1) =>
             /\ responses[1].status = 200
             /\ "html" \in responses[1].keys

\* a long text with a comparison in it is returned as the html update
C21_Witness ==
  /\ FirstAnswerIsNoDocument
  /\ Done
  /\ answerOf(1) = LongMath
  /\ Len(calls) = 1
  /\ "html" \in responses[1].keys

\* ---------------------------------------------------------------------
\* corsOptions.origin of backend/src/server.js.  An origin is the text
\* scheme://host[:port]; the host is its sequence of labels.
\* ---------------------------------------------------------------------

Schemes == { "http", "https" }

Hosts ==
  { << "localhost" >>, << "127.0.0.1" >>, << "localhost", "evil", "com" >>,
    << "127.0.0.1", "nip", "io" >>, << "notlocalhost", "com" >>,
    << "app", "example", "com" >>, << "evil", "com" >> }

Ports == { "", "3000", "5173", "8080" }

Origin(scheme, host, port) == [scheme |-> scheme, host |-> host, port |-> port]

\* the Origin header: absent, or an origin
NoOrigin == Origin("", << >>, "")

OriginHeaders ==
  { NoOrigin } \cup { Origin(sc, h, p) : sc \in Schemes, h \in Hosts, p \in Ports }

\* process.env.CLIENT_ORIGIN: unset, or an origin
ClientOrigins ==
  { NoOrigin, Origin("https", << "app", "example", "com" >>, ""),
    Origin("http", << "localhost" >>, "8080") }

\* the searched-for words that occur in a label of the host
LabelHas(label) ==
  CASE label = "localhost" -> { "localhost" }
    [] label = "notlocalhost" -> { "localhost" }
    [] label = "127.0.0.1" -> { "127.0.0.1" }
    [] OTHER -> {}

\* origin.includes(word): the scheme and the port hold neither word
originIncludes(origin, word) ==
  \E i \in 1..Len(origin.host) : word \in LabelHas(origin.host[i])

allowedOrigins(clientOrigin) ==
  { IF clientOrigin # NoOrigin THEN clientOrigin
      ELSE Origin("http", << "localhost" >>, "5173"),
    Origin("http", << "localhost" >>, "5173"),
    Origin("http", << "127.0.0.1" >>, "5173"),
    Origin("http", << "localhost" >>, "3000"),
    Origin("http", << "127.0.0.1" >>, "3000") }

\* the callback's answer: "allow", or the CORS error
corsOrigin(origin, clientOrigin) ==
  IF origin = NoOrigin THEN "allow"
  ELSE IF origin \in allowedOrigins(clientOrigin) THEN "allow"
  ELSE IF originIncludes(origin, "localhost") \/ originIncludes(origin, "127.0.0.1")
    THEN "allow"
  ELSE "Not allowed by CORS"

CorsInit ==
  /\ BackendOff /\ UiOff /\ CcOff
  /\ fnPc = "input"
  /\ fnIn \in [origin : OriginHeaders, CLIENT_ORIGIN : ClientOrigins]
  /\ fnOut = ""

CorsCheck ==
  /\ fnPc = "input"
  /\ fnOut' = corsOrigin(fnIn.origin, fnIn.CLIENT_ORIGIN)
  /\ fnPc' = "output"
  /\ UNCHANGED << fnIn, backendVars, uiVars, ccVars >>

CorsNext == CorsCheck

SpecCors == CorsInit /\ [][CorsNext]_vars

\* the host of the origin is localhost or 127.0.0.1
hostIsLocal(origin) == origin.host \in { << "localhost" >>, << "127.0.0.1" >> }

FixedLocalOrigins ==
  { Origin("http", << "localhost" >>, "5173"), Origin("http", << "127.0.0.1" >>, "5173"),
    Origin("http", << "localhost" >>, "3000"), Origin("http", << "127.0.0.1" >>, "3000") }

\* C22: a request with an Origin header is admitted only if the origin is
\* the configured CLIENT_ORIGIN, a fixed local development origin, or has
\* the host localhost or 127.0.0.1; every other origin gets the CORS error.
C22_OnlyLocalOrConfiguredOrigins ==
  (fnPc = "output" /\ fnIn.origin # NoOrigin)
  => ( fnOut = "allow"
       <=> \/ fnIn.origin = fnIn.CLIENT_ORIGIN
           \/ fnIn.origin \in FixedLocalOrigins
           \/ hostIsLocal(fnIn.origin) )

\* the request is one to /api/chat, /api/voice or /api/mockups
GenerationRequest == endpoint \in { "chat", "voice", "mockups" }

\* C23: a request to /api/chat, /api/voice or /api/mockups never has two
\* responses; its handler has ended exactly when it has one; and while it
\* has none the handler is awaiting exactly one provider call, after whose
\* settling it goes on.
C23_ExactlyOneResponse ==
  GenerationRequest
  => ( /\ Len(responses) <= 1
       /\ Done <=> Len(responses) = 1
       /\ ~Done => Cardinality(inFlight) = 1
       /\ Done => inFlight = {} )

\* the retry threw and the request was answered once, with the text
C23_Witness ==
  /\ Done
  /\ endpoint = "chat"
  /\ Len(calls) = 2
  /\ calls[2].state = "threw"
  /\ Len(responses) = 1
  /\ responses[1].status = 200

\* the handler of a voice request that wrote its temporary file has ended
VoiceFinishedAfterWrite ==
  /\ Done
  /\ endpoint = "voice"
  /\ calls # <<>>

NoCurrentHTML ==
  /\ endpoint \in { "chat", "voice" }
  /\ body.currentHTML = <<>>

\* C25: a chat or voice request without currentHTML gets no html member in
\* any response and issues no retry, whatever the model returns.
C25_NoContextNoHtml ==
  NoCurrentHTML
  => ( /\ \A i \in 1..Len(responses) : "html" \notin responses[i].keys
       /\ \A i \in 1..Len(calls) : calls[i].system # "modify-html-retry"
       /\ Len(completionCalls) <= 1 )

\* the model returned a complete document and it came back as the message
C25_Witness ==
  /\ NoCurrentHTML
  /\ Done
  /\ endpoint = "chat"
  /\ body.message.s = EditText
  /\ Len(calls) = 1
  /\ calls[1].result.content = FullDoc
  /\ responses[1].status = 200
  /\ responses[1].message = FullDoc
  /\ "html" \notin responses[1].keys

\* the /api/chat requests of the panel that have not settled
chatInFlight == fetches.send + fetches.edit

\* C26: at most one /api/chat request of the panel is in flight, and
\* isSendingChat is true whenever one is.
C26_OneChatRequestInFlight ==
  /\ chatInFlight <= 1
  /\ chatInFlight > 0 => isSendingChat

\* the step settles a /api/chat request of the panel
ChatRequestSettles == fetches'.send + fetches'.edit < chatInFlight

\* the reply turns of the panel: an assistant turn with data.message, or a
\* system turn with the error
isReplyTurn(turn) ==
  \/ turn.role = "assistant" /\ turn.content \in ServerMessages
  \/ /\ turn.role = "system"
     /\ turn.content \in { "Error: Failed to send message.",
                           "Error: Failed to send edited message." }

\* C27: the step in which the fetch of a chat send settles appends exactly
\* one reply turn, behind the user's turn, and leaves isSendingChat false;
\* every request in flight was preceded by its user turn.
C27_SettledSendAppendsOneReply ==
  [][ ChatRequestSettles
      => ( /\ fetches'.send + fetches'.edit = chatInFlight - 1
           /\ Len(chatMessages') = Len(chatMessages) + 1
           /\ SubSeq(chatMessages', 1, Len(chatMessages)) = chatMessages
           /\ isReplyTurn(chatMessages'[Len(chatMessages')])
           /\ \E i \in 1..Len(chatMessages) : chatMessages[i].role = "user"
           /\ ~isSendingChat' )
    ]_vars

\* a failed send: the user's turn, then the error turn
C27_Witness ==
  /\ Len(chatMessages) = 2
  /\ chatMessages[1].role = "user"
  /\ chatMessages[1].content = "hi"
  /\ chatMessages[2].role = "system"
  /\ chatMessages[2].content = "Error: Failed to send message."
  /\ fetches = NoFetches
  /\ ~isSendingChat

\* ---------------------------------------------------------------------
\* handleGenerate of frontend/src/App.jsx.  The Generate button is
\* disabled while isGenerating, so one invocation runs at a time; each
\* part between two awaits is one action.  The backend is held ready.
\* ---------------------------------------------------------------------

MaxClicks == 2

\* generatedHTML before the first click: null, or an earlier preview
PreviousPreviews == { "", "<html>A</html>" }

\* generatePayload.html of a 200 response with html
GeneratedPreviews == { "<html>G</html>" }

\* how the fetch of POST /api/sketches and the reading of its body end
SaveOutcomes == { "throw", "status", "badjson", "nosketch", "ok" }

\* how the fetch of POST /api/mockups and the reading of its body end
MockupsOutcomes == { "throw", "status", "badjson", "nohtml", "ok" }

Feedback(variant, message) == [variant |-> variant, message |-> message]

\* a click that passed the guards: its two requests, the timer of its
\* AbortController, and the connectivity test of the catch block
NewClick == [save |-> "inflight", mockups |-> "none", timer |-> "none", test |-> "none"]

thisClick == Len(genLog)

GenerateInit ==
  /\ BackendOff /\ FnOff /\ CcOff
  /\ ChatOff
  /\ generatedHTML \in PreviousPreviews
  /\ feedback = IdleFeedback
  /\ GenOff

genRest == << backendVars, fnVars, ccVars, chatVars >>

\* the catch and finally blocks; the preview is blanked as well
failGenerate_clearsPreview(message) ==
  /\ feedback' = Feedback("error", message)
  /\ isGenerating' = FALSE
  /\ genPc' = "idle"
  /\ generatedHTML' = ""

\* the catch and finally blocks
failGenerate(message) ==
  /\ feedback' = Feedback("error", message)
  /\ isGenerating' = FALSE
  /\ genPc' = "idle"
  /\ UNCHANGED generatedHTML

\* the click, up to the await of the save request
ClickGenerate(apiReady, hasDrawableElement, serializeOk) ==
  /\ genPc = "idle"
  /\ ~isGenerating
  /\ IF ~apiReady
       THEN /\ feedback' = Feedback("error", "Canvas is not ready yet. Please wait a moment.")
            /\ UNCHANGED << generatedHTML, isGenerating, genPc, genLog >>
     ELSE IF ~hasDrawableElement
       THEN /\ feedback' = Feedback("error", "Add at least one shape or stroke before generating.")
            /\ UNCHANGED << generatedHTML, isGenerating, genPc, genLog >>
     ELSE IF ~serializeOk
       THEN /\ failGenerate("Unexpected token")
            /\ UNCHANGED genLog
     ELSE /\ Len(genLog) < MaxClicks
          /\ isGenerating' = TRUE
          /\ feedback' = Feedback("pending", "Generating UI from sketch...")
          /\ genLog' = Append(genLog, NewClick)
          /\ genPc' = "saving"
          /\ UNCHANGED generatedHTML
  /\ UNCHANGED << lastSketch, sketchCount, genRest >>

\* the save request is answered whatever its status, and the mockups
\* request follows
SaveSettles_ignoresStatus(outcome) ==
  /\ genPc = "saving"
  /\ lastSketch' = thisClick
  /\ sketchCount' = sketchCount + 1
  /\ feedback' = Feedback("pending", "Generating HTML/CSS from your sketch...")
  /\ genLog' = [genLog EXCEPT ![thisClick] =
       [@ EXCEPT !.save = outcome, !.timer = "armed", !.mockups = "inflight"]]
  /\ genPc' = "generating"
  /\ UNCHANGED << generatedHTML, isGenerating, genRest >>

\* the save request settles, up to the await of the mockups request
SaveSettles(outcome) ==
  /\ genPc = "saving"
  /\ CASE outcome = "throw" ->
            /\ failGenerate("Failed to save sketch: Failed to fetch. Check backend connection.")
            /\ genLog' = [genLog EXCEPT ![thisClick].save = outcome]
            /\ UNCHANGED << lastSketch, sketchCount >>
       [] outcome = "status" ->
            /\ failGenerate("Unable to save sketch.")
            /\ genLog' = [genLog EXCEPT ![thisClick].save = outcome]
            /\ UNCHANGED << lastSketch, sketchCount >>
       [] outcome = "badjson" ->
            /\ failGenerate("Unexpected end of JSON input")
            /\ genLog' = [genLog EXCEPT ![thisClick].save = outcome]
            /\ UNCHANGED << lastSketch, sketchCount >>
       [] outcome = "nosketch" ->
            \* savePayload.sketch.id throws after the timer was started
            /\ failGenerate("Cannot read properties of undefined (reading 'id')")
            /\ lastSketch' = 0
            /\ sketchCount' = sketchCount + 1
            /\ genLog' = [genLog EXCEPT ![thisClick] =
                 [@ EXCEPT !.save = outcome, !.timer = "armed"]]
       [] outcome = "ok" ->
            /\ lastSketch' = thisClick
            /\ sketchCount' = sketchCount + 1
            /\ feedback' = Feedback("pending", "Generating HTML/CSS from your sketch...")
            /\ genLog' = [genLog EXCEPT ![thisClick] =
                 [@ EXCEPT !.save = outcome, !.timer = "armed", !.mockups = "inflight"]]
            /\ genPc' = "generating"
            /\ UNCHANGED << generatedHTML, isGenerating >>
  /\ UNCHANGED genRest

\* setTimeout(() => controller.abort(), 60000) of click k runs: the signal
\* of the controller was not given to fetch, so no request is aborted
TimerFires(k) ==
  /\ genLog[k].timer = "armed"
  /\ genLog' = [genLog EXCEPT ![k].timer = "fired"]
  /\ UNCHANGED << generatedHTML, feedback, isGenerating, genPc, lastSketch,
                  sketchCount, genRest >>

\* clearTimeout(timeoutId)
cleared(click) ==
  [click EXCEPT !.timer = IF @ = "armed" THEN "cleared" ELSE @]

\* the mockups request settles
MockupsSettles(outcome, html) ==
  /\ genPc = "generating"
  /\ CASE outcome = "throw" ->
            \* the catch block tests the connection before it throws
            /\ genLog' = [genLog EXCEPT ![thisClick] =
                 [cleared(@) EXCEPT !.mockups = outcome, !.test = "inflight"]]
            /\ genPc' = "testing"
            /\ UNCHANGED << generatedHTML, feedback, isGenerating >>
       [] outcome = "status" ->
            /\ failGenerate("Failed to generate mockups")
            /\ genLog' = [genLog EXCEPT ![thisClick] = [cleared(@) EXCEPT !.mockups = outcome]]
       [] outcome = "badjson" ->
            /\ failGenerate("Unexpected end of JSON input")
            /\ genLog' = [genLog EXCEPT ![thisClick] = [cleared(@) EXCEPT !.mockups = outcome]]
       [] outcome = "nohtml" ->
            /\ failGenerate("Backend returned no HTML content.")
            /\ genLog' = [genLog EXCEPT ![thisClick] = [cleared(@) EXCEPT !.mockups = outcome]]
       [] outcome = "ok" ->
            /\ generatedHTML' = html
            /\ feedback' = Feedback("success", "UI generated successfully! Check the preview pane.")
            /\ isGenerating' = FALSE
            /\ genPc' = "idle"
            /\ genLog' = [genLog EXCEPT ![thisClick] = [cleared(@) EXCEPT !.mockups = outcome]]
  /\ UNCHANGED << lastSketch, sketchCount, genRest >>

\* the connectivity test of the catch block settles, and the error of the
\* mockups fetch is thrown on
TestSettles(ok) ==
  /\ genPc = "testing"
  /\ genLog' = [genLog EXCEPT ![thisClick].test = IF ok THEN "ok" ELSE "throw"]
  /\ failGenerate("Failed to connect to backend. Check that the backend is running and CORS is configured correctly.")
  /\ UNCHANGED << lastSketch, sketchCount, genRest >>

GenerateNext ==
  \/ \E apiReady, hasDrawableElement, serializeOk \in BOOLEAN :
       ClickGenerate(apiReady, hasDrawableElement, serializeOk)
  \/ \E outcome \in SaveOutcomes : SaveSettles(outcome)
  \/ \E k \in 1..Len(genLog) : TimerFires(k)
  \/ \E outcome \in MockupsOutcomes, html \in GeneratedPreviews :
       MockupsSettles(outcome, html)
  \/ \E ok \in BOOLEAN : TestSettles(ok)

SpecGenerate == GenerateInit /\ [][GenerateNext]_vars

\* a click whose handler has run to its end
clickFinished(k) == k < thisClick \/ genPc = "idle"

\* C28: POST /api/mockups of a click is issued only after POST
\* /api/sketches of that click returned a success status; a click whose
\* save failed or came back non-OK has no mockups request.
C28_MockupsOnlyAfterSave ==
  \A k \in 1..Len(genLog) :
    /\ genLog[k].mockups # "none" => genLog[k].save = "ok"
    /\ genLog[k].save \in { "inflight", "throw", "status", "badjson" } =>
         genLog[k].mockups = "none"

\* one click stopped at a non-OK save, the next one saved and asks for mockups
C28_Witness ==
  /\ Len(genLog) = 2
  /\ genLog[1].save = "status" /\ genLog[1].mockups = "none"
  /\ genLog[2].save = "ok" /\ genLog[2].mockups = "inflight"

\* C29: a handleGenerate that fails at any step (canvas not ready, empty
\* canvas, save failure, network error, non-OK status, response without
\* html) leaves generatedHTML alone: it changes only in the step that
\* received html and reports success.
C29_FailureKeepsPreview ==
  [][ /\ feedback'.variant = "error" => generatedHTML' = generatedHTML
      /\ generatedHTML' # generatedHTML =>
           /\ genPc = "generating"
           /\ genLog'[thisClick].mockups = "ok"
           /\ feedback'.variant = "success" ]_vars

\* the preview of before the click is still shown after a response without html
C29_Witness ==
  /\ Len(genLog) > 0
  /\ genLog[thisClick].mockups = "nohtml"
  /\ genPc = "idle"
  /\ feedback = Feedback("error", "Backend returned no HTML content.")
  /\ generatedHTML = "<html>A</html>"

TimedOutMessage == "Request timed out after 60 seconds. The backend may be processing a large request."

====
